---- MODULE Spec2Model ----
(***************************************************************************)
(* A model of the GraphQL diagnostics pipeline of the language server      *)
(* (lsp/server/src/validateGraphql.ts) and of the object-metadata cache    *)
(* it consults (lsp/server/src/utils/orgUtils.ts).                         *)
(*                                                                         *)
(* The specifications share the module's variables:                        *)
(*   Spec      one validateGraphql pass over one document, with the rules  *)
(*             of a fragment running as concurrent tasks;                  *)
(*   SpecRemap updateDiagnosticOffset applied to one diagnostic;           *)
(*   SpecOrg   OrgUtils: concurrent getObjectInfo calls, their network     *)
(*             requests, and org changes (SpecOrgFair: with fairness);     *)
(*   SpecServer the language server's document cache, settings and         *)
(*             code-action handler;                                        *)
(*   SpecYaml  transformYamlToObject applied to one parsed document.       *)
(* A specification leaves the variables of the others at their idle        *)
(* values.                                                                 *)
(***************************************************************************)
EXTENDS Integers, Sequences, FiniteSets, TLC

\* ------------------------------------------------------------------ bounds

\* The most fragments the extractor yields for a document.
MaxFragments == 2
\* The largest cap passed as maxCount; the smallest is -1.
MaxCap == 4
\* Lines and columns of the diagnostics drawn for SpecRemap are 0..MaxCoord.
MaxCoord == 2
\* The getObjectInfo calls made in a run of SpecOrg.
MaxCallers == 2
\* The changes of the default org in a run of SpecOrg.
MaxOrgChanges == 1
\* The versions of a text document are 1..MaxVersion.
MaxVersion == 2
\* The most diagnostics a code-action request carries.
MaxDiagnostics == 2
\* The most rule ids the settings' suppressByRuleId holds.
MaxSuppressed == 1
\* The most entries under a top-level property of a YAML document.
MaxEntries == 2

\* --------------------------------------------------------------- variables

VARIABLES
    \* validateGraphql.ts
    diagnosticProducers, \* the rule registry, a sequence of producer ids
    document,            \* the text document, as what the extractor makes of it
    maxCount,            \* the cap of the pass
    pc,                  \* where the pass is: start, loop, join, returned, rejected
    results,             \* the accumulated Diagnostic[]
    graphQueries,        \* what gqlPluckFromCodeStringSync returned
    idx,                 \* the for-of loop's position in graphQueries
    tasks,               \* the validateDocument promises, per fragment and rule
    settled,             \* the fragment/rule pairs in the order their promises settled
    extractorCalls,      \* how often the extractor ran
    parsed,              \* the fragments parse() was called on
    \* updateDiagnosticOffset alone
    remapIn, remapLine, remapColumn, remapOut, remapDone,
    \* orgUtils.ts: the static fields of OrgUtils
    connectStatus,         \* UNKNOWN, CONNECTED or DISCONNECTED
    connection,            \* the Connection (named by its org) or NoConn
    orgName,               \* "" or the default org's name
    entities,              \* the entity list
    objectInfoInMemoCache, \* name -> ObjectInfo or NoInfo
    objectInfoPromises,    \* name -> the promise stored for it, or 0
    \* orgUtils.ts: the disk, keyed by the org part of the folder path
    folders,               \* the objectInfos folders that exist
    entityListFile,        \* per folder, entity_list.json
    objectInfoFile,        \* per folder and name, <name>.json
    \* orgUtils.ts: the environment and the running code
    targetOrg,             \* the default org the sf configuration names
    notifyPending,         \* a configuration change the watcher has not reported yet
    orgChanges,            \* how many configuration changes happened
    thread,                \* the getObjectInfo calls and the promise executors
    cur,                   \* the thread running synchronously, or 0
    nextPromise,           \* the id of the next promise created
    \* server.ts
    documentCache,         \* uri -> the cached TextDocument (its version) or NoDoc
    lastEvent,             \* uri -> the latest document event delivered for it
    settings,              \* the diagnostic settings
    codeActionParams,      \* the latest code-action request, or NoRequest
    codeActionResult,      \* what the handler returned for it
    \* yamlParser.ts
    parsedYaml,              \* what parse(yamlContent) returned
    designatedLevelProperty, \* the second argument
    yamlResult,              \* the outcome of the call: a throw or the record
    yamlDone                 \* the call was made

validateVars == <<diagnosticProducers, document, maxCount, pc, results,
                  graphQueries, idx, tasks, settled, extractorCalls, parsed>>
remapVars == <<remapIn, remapLine, remapColumn, remapOut, remapDone>>
orgVars == <<connectStatus, connection, orgName, entities,
             objectInfoInMemoCache, objectInfoPromises, folders, entityListFile,
             objectInfoFile, targetOrg, notifyPending, orgChanges, thread, cur,
             nextPromise>>
serverVars == <<documentCache, lastEvent, settings, codeActionParams,
                codeActionResult>>
yamlVars == <<parsedYaml, designatedLevelProperty, yamlResult, yamlDone>>
vars == <<validateVars, remapVars, orgVars, serverVars, yamlVars>>

\* ------------------------------------------------------------- data model

\* The ids of the diagnostic producers that a registry may hold.
Rules == {1, 2}

Min(a, b) == IF a < b THEN a ELSE b
Max(a, b) == IF a > b THEN a ELSE b

Pos(l, c) == [line |-> l, character |-> c]
Rng(sl, sc, el, ec) == [start |-> Pos(sl, sc), end |-> Pos(el, ec)]

\* Fragment-relative ranges a rule may report: on the fragment's first line,
\* and below it.
RangeA == Rng(0, 3, 0, 8)
RangeB == Rng(1, 2, 2, 4)

\* What one rule's validateDocument does on one fragment: its promise
\* rejects, or fulfils with the findings' ranges in emission order.
RuleOutcomes ==
    { [fails |-> TRUE,  ranges |-> <<>>],
      [fails |-> FALSE, ranges |-> <<>>],
      [fails |-> FALSE, ranges |-> <<RangeA, RangeB>>] }

\* query.locationOffset as the extractor reports it for the i-th literal of a
\* document: literals follow each other down the file, the first at the very
\* start of line 1, the second at line 5, column 10.
LocationOffsetOf(i) == [line |-> 4 * i - 3, column |-> 10 * ((i + 1) % 2)]

\* One extracted literal: whether graphql's parse accepts its body, where it
\* sits in the host document, and what each rule does on its tree. No rule
\* ever sees the tree of a body that does not parse: such a fragment carries
\* one outcome, findings from every rule, which must never surface.
FragmentsWithId(i) ==
    { [id |-> i, parses |-> TRUE, locationOffset |-> LocationOffsetOf(i), out |-> o] :
        o \in [Rules -> RuleOutcomes] } \cup
    { [id |-> i, parses |-> FALSE, locationOffset |-> LocationOffsetOf(i),
       out |-> [r \in Rules |-> [fails |-> FALSE, ranges |-> <<RangeA, RangeB>>]]] }

\* The sequences of n fragments, numbered 1..n in discovery order.
RECURSIVE QueriesOfLen(_)
QueriesOfLen(n) ==
    IF n = 0 THEN { <<>> }
    ELSE { Append(q, f) : q \in QueriesOfLen(n - 1), f \in FragmentsWithId(n) }

\* A document is what the extractor makes of it: it throws (a host file it
\* cannot parse), or yields the fragments.
Documents ==
    { [extractFails |-> TRUE, queries |-> <<>>] } \cup
    { [extractFails |-> FALSE, queries |-> q] :
        q \in UNION { QueriesOfLen(n) : n \in 0..MaxFragments } }

\* The registries: the sequences of distinct producers.
Registries ==
    { <<>> } \cup { <<r>> : r \in Rules } \cup
    { q \in Rules \X Rules : q[1] # q[2] }

\* ------------------------------------------------------ validateGraphql.ts

\* producer.validateDocument(textDocument, ast): the findings of rule r on
\* fragment f. data is the producer id, seq the emission index; frag names the
\* fragment the finding was reported for.
validateDocument(r, f) ==
    [k \in 1..Len(f.out[r].ranges) |->
        [range |-> f.out[r].ranges[k], data |-> r, seq |-> k, frag |-> f.id]]

\* Array.prototype.flat on an array of arrays.
RECURSIVE flat(_)
flat(ss) == IF ss = <<>> THEN <<>> ELSE Head(ss) \o flat(Tail(ss))

\* (mutant) The first-line test made after the line offset was added.
updateEndpointLineFirst(p, lineOffset, columnOffset) ==
    [line      |-> p.line + lineOffset,
     character |-> IF p.line + lineOffset = 0 THEN p.character + columnOffset
                                              ELSE p.character]

\* (mutant) The column offset counted from the character after the one it
\* names.
updateEndpointColumnPlusOne(p, lineOffset, columnOffset) ==
    [line      |-> p.line + lineOffset,
     character |-> IF p.line = 0 THEN p.character + columnOffset + 1
                                 ELSE p.character]

\* Lines 96-108, for one endpoint of the range.
updateEndpoint(p, lineOffset, columnOffset) ==
    [line      |-> p.line + lineOffset,
     character |-> IF p.line = 0 THEN p.character + columnOffset
                                 ELSE p.character]

updateDiagnosticOffset(d, lineOffset, columnOffset) ==
    [d EXCEPT !.range =
        [start |-> updateEndpoint(d.range.start, lineOffset, columnOffset),
         end   |-> updateEndpoint(d.range.end, lineOffset, columnOffset)]]

\* (mutant) The extractor's 1-based line taken as the 0-based line offset.
lineOffsetRaw(q) == q.locationOffset.line

\* Lines 48-49: the extractor's line is 1-based and its column is that of the
\* literal's opening backtick.
lineOffsetOf(q) == q.locationOffset.line - 1
columnOffsetOf(q) == q.locationOffset.column + 1

\* (mutant) The cap tested between fragments only.
RECURSIVE pushDiagnosticsUncapped(_, _, _, _)
pushDiagnosticsUncapped(res, diagnostics, q, cap) ==
    IF diagnostics = <<>> THEN res
    ELSE pushDiagnosticsUncapped(
            Append(res, updateDiagnosticOffset(Head(diagnostics),
                            lineOffsetOf(q), columnOffsetOf(q))),
            Tail(diagnostics), q, cap)

\* (mutant) The cap tested with > instead of >=.
RECURSIVE pushDiagnosticsOffByOne(_, _, _, _)
pushDiagnosticsOffByOne(res, diagnostics, q, cap) ==
    IF diagnostics = <<>> \/ Len(res) > cap THEN res
    ELSE pushDiagnosticsOffByOne(
            Append(res, updateDiagnosticOffset(Head(diagnostics),
                            lineOffsetOf(q), columnOffsetOf(q))),
            Tail(diagnostics), q, cap)

\* Lines 53-59, the inner for-of loop: each item is remapped and pushed until
\* the cap is reached.
RECURSIVE pushDiagnostics(_, _, _, _)
pushDiagnostics(res, diagnostics, q, cap) ==
    IF diagnostics = <<>> \/ Len(res) >= cap THEN res
    ELSE pushDiagnostics(
            Append(res, updateDiagnosticOffset(Head(diagnostics),
                            lineOffsetOf(q), columnOffsetOf(q))),
            Tail(diagnostics), q, cap)

\* The settled pairs of fragment f, in the order they settled.
settledOf(f) == SelectSeq(settled, LAMBDA t : t[1] = f)

\* (mutant) The values collected in the order the promises settled.
allResultsAsSettled(values, registry) ==
    IF Len(settledOf(idx)) = Len(registry)
    THEN [k \in 1..Len(registry) |-> values[settledOf(idx)[k][2]]]
    ELSE [k \in 1..Len(registry) |-> values[registry[k]]]

\* (mutant) Only the first registered producer's value is collected.
allResultsFirstOnly(values, registry) ==
    [k \in 1..Min(1, Len(registry)) |-> values[registry[k]]]

\* What Promise.all yields once every producer's promise has fulfilled: the
\* values in registry order.
allResults(values, registry) == [k \in 1..Len(registry) |-> values[registry[k]]]

\* validateOneGraphQuery as a function of the fragment: [] when parse throws
\* or any producer's promise rejects, otherwise the flattened findings.
validateOneGraphQuery(q, registry) ==
    IF ~q.parses THEN <<>>
    ELSE IF \E k \in 1..Len(registry) : q.out[registry[k]].fails THEN <<>>
    ELSE flat([k \in 1..Len(registry) |-> validateDocument(registry[k], q)])

\* The outer for-of loop run to its end from the given accumulated results.
RECURSIVE validateLoop(_, _, _, _)
validateLoop(queries, registry, cap, res) ==
    IF queries = <<>> \/ Len(res) >= cap THEN res
    ELSE validateLoop(Tail(queries), registry, cap,
            pushDiagnostics(res, validateOneGraphQuery(Head(queries), registry),
                            Head(queries), cap))

\* (mutant) The short circuit without the test of the registry.
shortCircuitsOnCapOnly(cap, registry) == cap <= 0

\* Line 29: the condition of the short circuit.
shortCircuits(cap, registry) == cap <= 0 \/ Len(registry) = 0

\* The list validateGraphql returns when the extractor does not throw.
validateGraphqlResult(queries, registry, cap) ==
    IF shortCircuits(cap, registry) THEN <<>>
    ELSE validateLoop(queries, registry, cap, <<>>)

\* ---- the pass as a process

NoTask == [state |-> "none", value |-> <<>>]
TaskKeys == (1..(MaxFragments + 1)) \X Rules

query == graphQueries[idx]

\* Lines 27-31: the short circuit.
ShortCircuit ==
    /\ pc = "start"
    /\ shortCircuits(maxCount, diagnosticProducers)
    /\ pc' = "returned"
    /\ UNCHANGED <<diagnosticProducers, document, maxCount, results,
                   graphQueries, idx, tasks, settled, extractorCalls, parsed>>

\* (mutant) An extractor that takes the whole text for one literal when it
\* finds none.
ExtractWholeText ==
    /\ pc = "start"
    /\ ~shortCircuits(maxCount, diagnosticProducers)
    /\ ~document.extractFails
    /\ extractorCalls' = extractorCalls + 1
    /\ graphQueries' =
           IF document.queries # <<>> THEN document.queries
           ELSE << [id |-> 1, parses |-> TRUE,
                    locationOffset |-> LocationOffsetOf(1),
                    out |-> [r \in Rules |->
                                [fails |-> FALSE, ranges |-> <<RangeA, RangeB>>]]] >>
    /\ idx' = 1
    /\ pc' = "loop"
    /\ UNCHANGED <<diagnosticProducers, document, maxCount, results, tasks,
                   settled, parsed>>

\* Lines 34-41: the extractor runs and returns the fragments.
Extract ==
    /\ pc = "start"
    /\ ~shortCircuits(maxCount, diagnosticProducers)
    /\ ~document.extractFails
    /\ extractorCalls' = extractorCalls + 1
    /\ graphQueries' = document.queries
    /\ idx' = 1
    /\ pc' = "loop"
    /\ UNCHANGED <<diagnosticProducers, document, maxCount, results, tasks,
                   settled, parsed>>

\* Lines 34-41: the extractor throws; nothing catches it, the promise of the
\* async function rejects.
ExtractThrows ==
    /\ pc = "start"
    /\ ~shortCircuits(maxCount, diagnosticProducers)
    /\ document.extractFails
    /\ extractorCalls' = extractorCalls + 1
    /\ pc' = "rejected"
    /\ UNCHANGED <<diagnosticProducers, document, maxCount, results,
                   graphQueries, idx, tasks, settled, parsed>>

\* Lines 44-47 and 62: the loop ends, by exhaustion or by the cap.
LoopExit ==
    /\ pc = "loop"
    /\ idx > Len(graphQueries) \/ Len(results) >= maxCount
    /\ pc' = "returned"
    /\ UNCHANGED <<diagnosticProducers, document, maxCount, results,
                   graphQueries, idx, tasks, settled, extractorCalls, parsed>>

\* (mutant) A parse failure ends the pass instead of the fragment.
ParseFailsEndsPass ==
    /\ pc = "loop"
    /\ idx <= Len(graphQueries) /\ Len(results) < maxCount
    /\ ~query.parses
    /\ parsed' = parsed \cup {query.id}
    /\ pc' = "returned"
    /\ UNCHANGED <<diagnosticProducers, document, maxCount, results,
                   graphQueries, idx, tasks, settled, extractorCalls>>

\* Lines 48-51, 73-74, 81-85: parse throws, validateOneGraphQuery returns [],
\* the inner loop has nothing to push.
ParseFails ==
    /\ pc = "loop"
    /\ idx <= Len(graphQueries) /\ Len(results) < maxCount
    /\ ~query.parses
    /\ parsed' = parsed \cup {query.id}
    /\ results' = pushDiagnostics(results, <<>>, query, maxCount)
    /\ idx' = idx + 1
    /\ UNCHANGED <<diagnosticProducers, document, maxCount, pc, graphQueries,
                   tasks, settled, extractorCalls>>

\* (mutant) Launching the rules takes the last producer off the registry.
LaunchShrinksRegistry ==
    /\ pc = "loop"
    /\ idx <= Len(graphQueries) /\ Len(results) < maxCount
    /\ query.parses
    /\ parsed' = parsed \cup {query.id}
    /\ tasks' = [t \in TaskKeys |->
                    IF t[1] = query.id
                       /\ \E k \in 1..Len(diagnosticProducers) :
                              diagnosticProducers[k] = t[2]
                    THEN [state |-> "running", value |-> <<>>]
                    ELSE tasks[t]]
    /\ diagnosticProducers' =
           SubSeq(diagnosticProducers, 1, Len(diagnosticProducers) - 1)
    /\ pc' = "join"
    /\ UNCHANGED <<document, maxCount, results, graphQueries, idx, settled,
                   extractorCalls>>

\* (mutant) The cap is not tested before a fragment that parses.
LaunchWithoutCapTest ==
    /\ pc = "loop"
    /\ idx <= Len(graphQueries)
    /\ query.parses
    /\ parsed' = parsed \cup {query.id}
    /\ tasks' = [t \in TaskKeys |->
                    IF t[1] = query.id
                       /\ \E k \in 1..Len(diagnosticProducers) :
                              diagnosticProducers[k] = t[2]
                    THEN [state |-> "running", value |-> <<>>]
                    ELSE tasks[t]]
    /\ pc' = "join"
    /\ UNCHANGED <<diagnosticProducers, document, maxCount, results,
                   graphQueries, idx, settled, extractorCalls>>

\* Lines 48-51, 73-78: parse succeeds and every producer of the registry is
\* invoked; the pass suspends on Promise.all.
Launch ==
    /\ pc = "loop"
    /\ idx <= Len(graphQueries) /\ Len(results) < maxCount
    /\ query.parses
    /\ parsed' = parsed \cup {query.id}
    /\ tasks' = [t \in TaskKeys |->
                    IF t[1] = query.id
                       /\ \E k \in 1..Len(diagnosticProducers) :
                              diagnosticProducers[k] = t[2]
                    THEN [state |-> "running", value |-> <<>>]
                    ELSE tasks[t]]
    /\ pc' = "join"
    /\ UNCHANGED <<diagnosticProducers, document, maxCount, results,
                   graphQueries, idx, settled, extractorCalls>>

\* A producer's promise settles: it fulfils with the findings or rejects.
RuleSettles(f, r) ==
    /\ tasks[<<f, r>>].state = "running"
    /\ tasks' = [tasks EXCEPT ![<<f, r>>] =
                    IF graphQueries[f].out[r].fails
                    THEN [state |-> "rejected", value |-> <<>>]
                    ELSE [state |-> "fulfilled",
                          value |-> validateDocument(r, graphQueries[f])]]
    /\ settled' = Append(settled, <<f, r>>)
    /\ UNCHANGED <<diagnosticProducers, document, maxCount, pc, results,
                   graphQueries, idx, extractorCalls, parsed>>

\* Lines 75-80 and 52-59: every promise has fulfilled; the findings are
\* flattened in registry order, remapped and pushed up to the cap.
JoinFulfilled ==
    /\ pc = "join"
    /\ \A k \in 1..Len(diagnosticProducers) :
           tasks[<<query.id, diagnosticProducers[k]>>].state = "fulfilled"
    /\ results' = pushDiagnostics(results,
                      flat(allResults([r \in Rules |-> tasks[<<query.id, r>>].value],
                                      diagnosticProducers)),
                      query, maxCount)
    /\ idx' = idx + 1
    /\ pc' = "loop"
    /\ UNCHANGED <<diagnosticProducers, document, maxCount, graphQueries,
                   tasks, settled, extractorCalls, parsed>>

\* (mutant) A producer's rejection ends the pass.
JoinRejectedEndsPass ==
    /\ pc = "join"
    /\ \E k \in 1..Len(diagnosticProducers) :
           tasks[<<query.id, diagnosticProducers[k]>>].state = "rejected"
    /\ pc' = "returned"
    /\ UNCHANGED <<diagnosticProducers, document, maxCount, results,
                   graphQueries, idx, tasks, settled, extractorCalls, parsed>>

\* Lines 75-85: Promise.all rejects as soon as one promise has rejected; the
\* catch swallows it and the fragment yields [], whatever the others return.
JoinRejected ==
    /\ pc = "join"
    /\ \E k \in 1..Len(diagnosticProducers) :
           tasks[<<query.id, diagnosticProducers[k]>>].state = "rejected"
    /\ results' = pushDiagnostics(results, <<>>, query, maxCount)
    /\ idx' = idx + 1
    /\ pc' = "loop"
    /\ UNCHANGED <<diagnosticProducers, document, maxCount, graphQueries,
                   tasks, settled, extractorCalls, parsed>>

ValidateIdle ==
    /\ diagnosticProducers = <<>>
    /\ document = [extractFails |-> FALSE, queries |-> <<>>]
    /\ maxCount = 0
    /\ pc = "idle"
    /\ results = <<>>
    /\ graphQueries = <<>>
    /\ idx = 0
    /\ tasks = [t \in TaskKeys |-> NoTask]
    /\ settled = <<>>
    /\ extractorCalls = 0
    /\ parsed = {}

RemapIdle ==
    /\ remapIn = [range |-> Rng(0, 0, 0, 0)]
    /\ remapLine = 0
    /\ remapColumn = 0
    /\ remapOut = [range |-> Rng(0, 0, 0, 0)]
    /\ remapDone = FALSE

\* The server's and the YAML parser's variables while another
\* specification runs.
Uris == {"a.js", "b.js"}
NoDoc == 0
NoRequest == [uri |-> "", diagnostics |-> <<>>]
NoEvent == [kind |-> "none", version |-> 0]

ServerIdle ==
    /\ documentCache = [u \in Uris |-> NoDoc]
    /\ lastEvent = [u \in Uris |-> NoEvent]
    /\ settings = [suppressAll |-> FALSE, suppressByRuleId |-> <<>>]
    /\ codeActionParams = NoRequest
    /\ codeActionResult = [kind |-> "none", actions |-> <<>>]

YamlIdle ==
    /\ parsedYaml = <<>>
    /\ designatedLevelProperty = ""
    /\ yamlResult = [threw |-> FALSE, record |-> <<>>]
    /\ yamlDone = FALSE

OthersIdle == ServerIdle /\ YamlIdle

\* ------------------------------------------------------------- orgUtils.ts

\* JavaScript runs one piece of synchronous code at a time: a thread of the
\* model (a getObjectInfo call, or the executor of a promise it created) runs
\* from one await of real I/O to the next without interleaving. cur names the
\* thread that is running; I/O completions and events happen while cur = 0.

Orgs == {"orgA", "orgB"}
Names == {"Account", "Bogus"}
NoConn == "none"
NoInfo == "none"
Undefined == "undefined"
NoFile == [exists |-> FALSE, list |-> {}]

\* connection.describeGlobal(): the names of the org's sobjects.
OrgEntities(o) == {"Account"}

Callers == 1..MaxCallers
Promises == 1..MaxCallers
Exec(p) == MaxCallers + p
Threads == 1..(2 * MaxCallers)
IsCaller(t) == t <= MaxCallers
Paths == Orgs \cup {""}

IdleThread ==
    [pc |-> "idle", name |-> "", org |-> "", conn |-> NoConn,
     status |-> "UNKNOWN", path |-> "", promise |-> 0, value |-> "pending"]

\* The network requests (connection.request) in flight for a name.
InFlight(n) == { p \in Promises : thread[Exec(p)].pc = "request"
                                   /\ thread[Exec(p)].name = n }

diskVars == <<folders, entityListFile, objectInfoFile>>
envVars == <<targetOrg, notifyPending, orgChanges>>
cacheVars == <<objectInfoInMemoCache, objectInfoPromises>>

\* Where a thread goes on when getConnection returns to it: a call is in
\* checkAuthStatus (line 119), an executor in the promise's body (line 249).
AfterGetConnection(t) == IF IsCaller(t) THEN "connAuth" ELSE "connExec"

\* Line 228: getObjectInfo(n) is called. The calls are numbered in the order
\* they are made.
GetObjectInfo(c, n) ==
    /\ cur = 0
    /\ thread[c].pc = "idle"
    /\ \A b \in Callers : b < c => thread[b].pc # "idle"
    /\ thread' = [thread EXCEPT ![c].pc = "checkAuth", ![c].name = n]
    /\ cur' = c
    /\ UNCHANGED <<connectStatus, connection, orgName, entities, cacheVars,
                   diskVars, envVars, nextPromise>>

\* Lines 115-119: checkAuthStatus returns a known status, or asks for the
\* connection.
CheckAuthStatus(c) ==
    /\ cur = c
    /\ thread[c].pc = "checkAuth"
    /\ thread' = IF connectStatus # "UNKNOWN"
                 THEN [thread EXCEPT ![c].pc = "afterAuth",
                                     ![c].status = connectStatus]
                 ELSE [thread EXCEPT ![c].pc = "getConn"]
    /\ UNCHANGED <<connectStatus, connection, orgName, entities, cacheVars,
                   diskVars, envVars, cur, nextPromise>>

\* Lines 145-153: getConnection returns the stored connection, or starts to
\* read the configuration (getDefaultUserName, getDefaultOrg).
GetConnection(t) ==
    /\ cur = t
    /\ thread[t].pc = "getConn"
    /\ IF connection # NoConn
       THEN /\ thread' = [thread EXCEPT ![t].pc = AfterGetConnection(t),
                                        ![t].conn = connection]
            /\ cur' = t
       ELSE /\ thread' = [thread EXCEPT ![t].pc = "config"]
            /\ cur' = 0
    /\ UNCHANGED <<connectStatus, connection, orgName, entities, cacheVars,
                   diskVars, envVars, nextPromise>>

\* Lines 71-85, 101-111: the configuration was read. With a default org,
\* orgName is set and the alias is looked up; without, getDefaultOrg rejects,
\* getDefaultUserName and getConnection return undefined.
ConfigRead(t) ==
    /\ cur = 0
    /\ thread[t].pc = "config"
    /\ IF targetOrg # ""
       THEN /\ orgName' = targetOrg
            /\ thread' = [thread EXCEPT ![t].pc = "alias", ![t].org = targetOrg]
            /\ cur' = 0
       ELSE /\ orgName' = orgName
            /\ thread' = [thread EXCEPT ![t].pc = AfterGetConnection(t),
                                        ![t].conn = NoConn]
            /\ cur' = t
    /\ UNCHANGED <<connectStatus, connection, entities, cacheVars, diskVars,
                   envVars, nextPromise>>

\* Lines 104-111, 153-156: the alias resolves to a username, or it does not
\* and getConnection returns undefined.
AliasRead(t, found) ==
    /\ cur = 0
    /\ thread[t].pc = "alias"
    /\ IF found
       THEN /\ thread' = [thread EXCEPT ![t].pc = "create"]
            /\ cur' = 0
       ELSE /\ thread' = [thread EXCEPT ![t].pc = AfterGetConnection(t),
                                        ![t].conn = NoConn]
            /\ cur' = t
    /\ UNCHANGED <<connectStatus, connection, orgName, entities, cacheVars,
                   diskVars, envVars, nextPromise>>

\* Lines 157-168: Connection.create returns and the connection is stored, or
\* it throws and the stored connection is cleared.
ConnectionCreated(t, ok) ==
    /\ cur = 0
    /\ thread[t].pc = "create"
    /\ connection' = IF ok THEN thread[t].org ELSE NoConn
    /\ thread' = [thread EXCEPT ![t].pc = AfterGetConnection(t),
                                ![t].conn = IF ok THEN thread[t].org ELSE NoConn]
    /\ cur' = t
    /\ UNCHANGED <<connectStatus, orgName, entities, cacheVars, diskVars,
                   envVars, nextPromise>>

\* Lines 120-141: checkAuthStatus sets the status from the connection; when
\* connected it loads the entity list from its file, or requests it.
SetAuthStatus(c) ==
    /\ cur = c
    /\ thread[c].pc = "connAuth"
    /\ IF thread[c].conn = NoConn
       THEN /\ connectStatus' = "DISCONNECTED"
            /\ thread' = [thread EXCEPT ![c].pc = "afterAuth",
                                        ![c].status = "DISCONNECTED"]
            /\ UNCHANGED <<entities, folders, cur>>
       ELSE /\ connectStatus' = "CONNECTED"
            /\ folders' = folders \cup {orgName}
            /\ IF entityListFile[orgName].exists
               THEN /\ entities' = entityListFile[orgName].list
                    /\ thread' = [thread EXCEPT ![c].pc = "afterAuth",
                                                ![c].status = "CONNECTED"]
                    /\ cur' = c
               ELSE /\ entities' = entities
                    /\ thread' = [thread EXCEPT ![c].pc = "describe",
                                                ![c].path = orgName,
                                                ![c].conn = connection]
                    /\ cur' = 0
    /\ UNCHANGED <<connection, orgName, cacheVars, entityListFile,
                   objectInfoFile, envVars, nextPromise>>

\* Lines 130-134, 141: describeGlobal answered; the list is stored and
\* written to the file whose path was computed before the request.
\* writeFileSync throws when the folder is gone, and the call rejects.
EntityListLoaded(c) ==
    /\ cur = 0
    /\ thread[c].pc = "describe"
    /\ entities' = OrgEntities(thread[c].conn)
    /\ IF thread[c].path \in folders
       THEN /\ entityListFile' =
                  [entityListFile EXCEPT ![thread[c].path] =
                      [exists |-> TRUE, list |-> OrgEntities(thread[c].conn)]]
            /\ thread' = [thread EXCEPT ![c].pc = "afterAuth",
                                        ![c].status = connectStatus]
            /\ cur' = c
       ELSE /\ entityListFile' = entityListFile
            /\ thread' = [thread EXCEPT ![c].pc = "rejected"]
            /\ cur' = 0
    /\ UNCHANGED <<connectStatus, connection, orgName, cacheVars, folders,
                   objectInfoFile, envVars, nextPromise>>

\* Line 130: describeGlobal fails; checkAuthStatus and the call reject.
EntityListFails(c) ==
    /\ cur = 0
    /\ thread[c].pc = "describe"
    /\ thread' = [thread EXCEPT ![c].pc = "rejected"]
    /\ UNCHANGED <<connectStatus, connection, orgName, entities, cacheVars,
                   diskVars, envVars, cur, nextPromise>>

\* (mutant) A call that is not connected looks the name up in the caches
\* before it gives up.
ReturnUnavailableViaCache(c) ==
    /\ cur = c
    /\ thread[c].pc = "afterAuth"
    /\ thread[c].status # "CONNECTED"
    /\ folders' = folders \cup {orgName}
    /\ thread' = [thread EXCEPT ![c].pc = "done",
                     ![c].value =
                         IF objectInfoInMemoCache[thread[c].name] # NoInfo
                         THEN objectInfoInMemoCache[thread[c].name]
                         ELSE Undefined]
    /\ cur' = 0
    /\ UNCHANGED <<connectStatus, connection, orgName, entities, cacheVars,
                   entityListFile, objectInfoFile, envVars, nextPromise>>

\* Lines 231-234: not connected, the call returns undefined.
ReturnUnavailable(c) ==
    /\ cur = c
    /\ thread[c].pc = "afterAuth"
    /\ thread[c].status # "CONNECTED"
    /\ thread' = [thread EXCEPT ![c].pc = "done", ![c].value = Undefined]
    /\ cur' = 0
    /\ UNCHANGED <<connectStatus, connection, orgName, entities, cacheVars,
                   diskVars, envVars, nextPromise>>

\* Lines 236-239, 211-216: the memory cache holds the name.
ReturnFromMemory(c) ==
    /\ cur = c
    /\ thread[c].pc = "afterAuth"
    /\ thread[c].status = "CONNECTED"
    /\ objectInfoInMemoCache[thread[c].name] # NoInfo
    /\ thread' = [thread EXCEPT ![c].pc = "done",
                     ![c].value = objectInfoInMemoCache[thread[c].name]]
    /\ cur' = 0
    /\ UNCHANGED <<connectStatus, connection, orgName, entities, cacheVars,
                   diskVars, envVars, nextPromise>>

\* (mutant) A disk hit is returned without being copied to the memory cache.
ReturnFromDiskWithoutCopy(c) ==
    /\ cur = c
    /\ thread[c].pc = "afterAuth"
    /\ thread[c].status = "CONNECTED"
    /\ objectInfoInMemoCache[thread[c].name] = NoInfo
    /\ objectInfoFile[<<orgName, thread[c].name>>] # NoInfo
    /\ thread' = [thread EXCEPT ![c].pc = "done",
                     ![c].value = objectInfoFile[<<orgName, thread[c].name>>]]
    /\ cur' = 0
    /\ UNCHANGED <<connectStatus, connection, orgName, entities, cacheVars,
                   diskVars, envVars, nextPromise>>

\* Lines 236-239, 218-223, 193-206: the disk cache holds the name; the info
\* is copied to the memory cache.
ReturnFromDisk(c) ==
    /\ cur = c
    /\ thread[c].pc = "afterAuth"
    /\ thread[c].status = "CONNECTED"
    /\ objectInfoInMemoCache[thread[c].name] = NoInfo
    /\ objectInfoFile[<<orgName, thread[c].name>>] # NoInfo
    /\ objectInfoInMemoCache' =
           [objectInfoInMemoCache EXCEPT ![thread[c].name] =
               objectInfoFile[<<orgName, thread[c].name>>]]
    /\ thread' = [thread EXCEPT ![c].pc = "done",
                     ![c].value = objectInfoFile[<<orgName, thread[c].name>>]]
    /\ cur' = 0
    /\ UNCHANGED <<connectStatus, connection, orgName, entities,
                   objectInfoPromises, diskVars, envVars, nextPromise>>

\* Lines 241-243, 277: both caches miss and a promise is stored for the name:
\* the call returns that promise.
JoinRequest(c) ==
    /\ cur = c
    /\ thread[c].pc = "afterAuth"
    /\ thread[c].status = "CONNECTED"
    /\ objectInfoInMemoCache[thread[c].name] = NoInfo
    /\ objectInfoFile[<<orgName, thread[c].name>>] = NoInfo
    /\ objectInfoPromises[thread[c].name] # 0
    /\ folders' = folders \cup {orgName}
    /\ thread' = [thread EXCEPT ![c].pc = "waiting",
                     ![c].promise = objectInfoPromises[thread[c].name]]
    /\ cur' = 0
    /\ UNCHANGED <<connectStatus, connection, orgName, entities, cacheVars,
                   entityListFile, objectInfoFile, envVars, nextPromise>>

\* Lines 244-277: both caches miss and no promise is stored: a promise is
\* created and stored, its executor starts with getConnection.
StartRequest(c) ==
    /\ cur = c
    /\ thread[c].pc = "afterAuth"
    /\ thread[c].status = "CONNECTED"
    /\ objectInfoInMemoCache[thread[c].name] = NoInfo
    /\ objectInfoFile[<<orgName, thread[c].name>>] = NoInfo
    /\ objectInfoPromises[thread[c].name] = 0
    /\ folders' = folders \cup {orgName}
    /\ objectInfoPromises' =
           [objectInfoPromises EXCEPT ![thread[c].name] = nextPromise]
    /\ thread' = [thread EXCEPT
                     ![c].pc = "waiting",
                     ![c].promise = nextPromise,
                     ![Exec(nextPromise)].pc = "getConn",
                     ![Exec(nextPromise)].name = thread[c].name]
    /\ nextPromise' = nextPromise + 1
    /\ cur' = Exec(nextPromise)
    /\ UNCHANGED <<connectStatus, connection, orgName, entities,
                   objectInfoInMemoCache, entityListFile, objectInfoFile,
                   envVars>>

\* Lines 249-256: with a connection and a listed name the executor sends the
\* request.
SendRequest(e) ==
    /\ cur = e
    /\ thread[e].pc = "connExec"
    /\ thread[e].conn # NoConn /\ thread[e].name \in entities
    /\ thread' = [thread EXCEPT ![e].pc = "request"]
    /\ cur' = 0
    /\ UNCHANGED <<connectStatus, connection, orgName, entities, cacheVars,
                   diskVars, envVars, nextPromise>>

\* Lines 250-265: without a connection or with a name that is not listed the
\* executor ends without calling resolve: the promise stays pending.
LeavePending(e) ==
    /\ cur = e
    /\ thread[e].pc = "connExec"
    /\ ~(thread[e].conn # NoConn /\ thread[e].name \in entities)
    /\ thread' = [thread EXCEPT ![e].pc = "pending"]
    /\ cur' = 0
    /\ UNCHANGED <<connectStatus, connection, orgName, entities, cacheVars,
                   diskVars, envVars, nextPromise>>

\* Lines 254-264, 280-295, 269-271: the request answered; the info is stored
\* in memory and on disk, the promise resolves, and finally deletes the
\* name's entry of objectInfoPromises.
RequestAnswered(e) ==
    /\ cur = 0
    /\ thread[e].pc = "request"
    /\ objectInfoInMemoCache' =
           [objectInfoInMemoCache EXCEPT ![thread[e].name] = thread[e].conn]
    /\ folders' = folders \cup {orgName}
    /\ objectInfoFile' =
           [objectInfoFile EXCEPT ![<<orgName, thread[e].name>>] = thread[e].conn]
    /\ objectInfoPromises' = [objectInfoPromises EXCEPT ![thread[e].name] = 0]
    /\ thread' = [thread EXCEPT ![e].pc = "resolved",
                                ![e].value = thread[e].conn]
    /\ UNCHANGED <<connectStatus, connection, orgName, entities,
                   entityListFile, envVars, cur, nextPromise>>

\* Lines 266-271: the request fails; the promise resolves with undefined and
\* finally deletes the name's entry.
RequestFails(e) ==
    /\ cur = 0
    /\ thread[e].pc = "request"
    /\ objectInfoPromises' = [objectInfoPromises EXCEPT ![thread[e].name] = 0]
    /\ thread' = [thread EXCEPT ![e].pc = "resolved", ![e].value = Undefined]
    /\ UNCHANGED <<connectStatus, connection, orgName, entities,
                   objectInfoInMemoCache, diskVars, envVars, cur, nextPromise>>

\* Line 277: the promise a call returned has resolved.
Resume(c) ==
    /\ cur = 0
    /\ thread[c].pc = "waiting"
    /\ thread[Exec(thread[c].promise)].pc = "resolved"
    /\ thread' = [thread EXCEPT ![c].pc = "done",
                     ![c].value = thread[Exec(thread[c].promise)].value]
    /\ UNCHANGED <<connectStatus, connection, orgName, entities, cacheVars,
                   diskVars, envVars, cur, nextPromise>>

\* The sf configuration changes: another default org, or none.
ConfigChanges(o) ==
    /\ cur = 0
    /\ orgChanges < MaxOrgChanges
    /\ o # targetOrg
    /\ targetOrg' = o
    /\ notifyPending' = TRUE
    /\ orgChanges' = orgChanges + 1
    /\ UNCHANGED <<connectStatus, connection, orgName, entities, cacheVars,
                   diskVars, thread, cur, nextPromise>>

\* (mutant) clearCache without the removal of the org's folder.
OnAuthOrgChangedKeepsFolder ==
    /\ cur = 0
    /\ notifyPending
    /\ notifyPending' = FALSE
    /\ connectStatus' = "UNKNOWN"
    /\ entities' = {}
    /\ objectInfoInMemoCache' = [n \in Names |-> NoInfo]
    /\ objectInfoPromises' = [n \in Names |-> 0]
    /\ connection' = NoConn
    /\ orgName' = ""
    /\ UNCHANGED <<diskVars, targetOrg, orgChanges, thread, cur, nextPromise>>

\* Lines 87-90, 297-309: onAuthOrgChanged and clearCache.
OnAuthOrgChanged ==
    /\ cur = 0
    /\ notifyPending
    /\ notifyPending' = FALSE
    /\ connectStatus' = "UNKNOWN"
    /\ entities' = {}
    /\ objectInfoInMemoCache' = [n \in Names |-> NoInfo]
    /\ objectInfoPromises' = [n \in Names |-> 0]
    /\ connection' = NoConn
    /\ folders' = folders \ (IF orgName # "" THEN {orgName} ELSE {})
    /\ entityListFile' =
           [p \in Paths |-> IF orgName # "" /\ p = orgName THEN NoFile
                            ELSE entityListFile[p]]
    /\ objectInfoFile' =
           [k \in Paths \X Names |-> IF orgName # "" /\ k[1] = orgName THEN NoInfo
                                     ELSE objectInfoFile[k]]
    /\ orgName' = ""
    /\ UNCHANGED <<targetOrg, orgChanges, thread, cur, nextPromise>>

\* The disk a server starts on: nothing, or the files a previous session left
\* for an org.
InitialDisks ==
    { [folders |-> {},
       entityListFile |-> [p \in Paths |-> NoFile],
       objectInfoFile |-> [k \in Paths \X Names |-> NoInfo]] } \cup
    { [folders |-> {o},
       entityListFile |-> [p \in Paths |->
            IF p = o THEN [exists |-> TRUE, list |-> OrgEntities(o)] ELSE NoFile],
       objectInfoFile |-> [k \in Paths \X Names |->
            IF k[1] = o /\ k[2] \in OrgEntities(o) THEN o ELSE NoInfo]] :
      o \in Orgs }

\* Lines 40-52: the static fields as the class is loaded.
OrgFields ==
    /\ connectStatus = "UNKNOWN"
    /\ connection = NoConn
    /\ orgName = ""
    /\ entities = {}
    /\ objectInfoInMemoCache = [n \in Names |-> NoInfo]
    /\ objectInfoPromises = [n \in Names |-> 0]
    /\ notifyPending = FALSE
    /\ orgChanges = 0
    /\ thread = [t \in Threads |-> IdleThread]
    /\ cur = 0
    /\ nextPromise = 1

OrgIdle ==
    /\ OrgFields
    /\ folders = {}
    /\ entityListFile = [p \in Paths |-> NoFile]
    /\ objectInfoFile = [k \in Paths \X Names |-> NoInfo]
    /\ targetOrg = ""

InitOrg ==
    /\ ValidateIdle
    /\ RemapIdle
    /\ OthersIdle
    /\ OrgFields
    /\ \E d \in InitialDisks :
           /\ folders = d.folders
           /\ entityListFile = d.entityListFile
           /\ objectInfoFile = d.objectInfoFile
    /\ targetOrg \in Orgs \cup {""}

OrgOnly == UNCHANGED <<validateVars, remapVars, serverVars, yamlVars>>

NextOrg ==
    \/ \E c \in Callers, n \in Names : GetObjectInfo(c, n) /\ OrgOnly
    \/ \E c \in Callers : CheckAuthStatus(c) /\ OrgOnly
    \/ \E t \in Threads : GetConnection(t) /\ OrgOnly
    \/ \E t \in Threads : ConfigRead(t) /\ OrgOnly
    \/ \E t \in Threads, found \in BOOLEAN : AliasRead(t, found) /\ OrgOnly
    \/ \E t \in Threads, ok \in BOOLEAN : ConnectionCreated(t, ok) /\ OrgOnly
    \/ \E c \in Callers : SetAuthStatus(c) /\ OrgOnly
    \/ \E c \in Callers : EntityListLoaded(c) /\ OrgOnly
    \/ \E c \in Callers : EntityListFails(c) /\ OrgOnly
    \/ \E c \in Callers : ReturnUnavailable(c) /\ OrgOnly
    \/ \E c \in Callers : ReturnFromMemory(c) /\ OrgOnly
    \/ \E c \in Callers : ReturnFromDisk(c) /\ OrgOnly
    \/ \E c \in Callers : JoinRequest(c) /\ OrgOnly
    \/ \E c \in Callers : StartRequest(c) /\ OrgOnly
    \/ \E p \in Promises : SendRequest(Exec(p)) /\ OrgOnly
    \/ \E p \in Promises : LeavePending(Exec(p)) /\ OrgOnly
    \/ \E p \in Promises : RequestAnswered(Exec(p)) /\ OrgOnly
    \/ \E p \in Promises : RequestFails(Exec(p)) /\ OrgOnly
    \/ \E c \in Callers : Resume(c) /\ OrgOnly
    \/ \E o \in Orgs \cup {""} : ConfigChanges(o) /\ OrgOnly
    \/ (OnAuthOrgChanged /\ OrgOnly)

SpecOrg == InitOrg /\ [][NextOrg]_vars

\* The steps the running server takes by itself: synchronous code runs on,
\* every I/O operation it awaits completes (with one of its outcomes), and
\* the file watcher delivers its notification. The steps left out are those
\* of the environment: a client calling getObjectInfo and a user changing
\* the default org.
OrgProgress ==
    \/ \E c \in Callers : CheckAuthStatus(c) /\ OrgOnly
    \/ \E t \in Threads : GetConnection(t) /\ OrgOnly
    \/ \E t \in Threads : ConfigRead(t) /\ OrgOnly
    \/ \E t \in Threads, found \in BOOLEAN : AliasRead(t, found) /\ OrgOnly
    \/ \E t \in Threads, ok \in BOOLEAN : ConnectionCreated(t, ok) /\ OrgOnly
    \/ \E c \in Callers : SetAuthStatus(c) /\ OrgOnly
    \/ \E c \in Callers : EntityListLoaded(c) /\ OrgOnly
    \/ \E c \in Callers : EntityListFails(c) /\ OrgOnly
    \/ \E c \in Callers : ReturnUnavailable(c) /\ OrgOnly
    \/ \E c \in Callers : ReturnFromMemory(c) /\ OrgOnly
    \/ \E c \in Callers : ReturnFromDisk(c) /\ OrgOnly
    \/ \E c \in Callers : JoinRequest(c) /\ OrgOnly
    \/ \E c \in Callers : StartRequest(c) /\ OrgOnly
    \/ \E p \in Promises : SendRequest(Exec(p)) /\ OrgOnly
    \/ \E p \in Promises : LeavePending(Exec(p)) /\ OrgOnly
    \/ \E p \in Promises : RequestAnswered(Exec(p)) /\ OrgOnly
    \/ \E p \in Promises : RequestFails(Exec(p)) /\ OrgOnly
    \/ \E c \in Callers : Resume(c) /\ OrgOnly
    \/ (OnAuthOrgChanged /\ OrgOnly)

\* SpecOrg with the event loop's guarantee: as long as the server has a step
\* to take, it takes one.
SpecOrgFair == InitOrg /\ [][NextOrg]_vars /\ WF_vars(OrgProgress)

\* updateDiagnosticOffset applied to the drawn diagnostic.
ApplyRemap ==
    /\ ~remapDone
    /\ remapOut' = updateDiagnosticOffset(remapIn, remapLine, remapColumn)
    /\ remapDone' = TRUE
    /\ UNCHANGED <<remapIn, remapLine, remapColumn>>

Coords == 0..MaxCoord

InitRemap ==
    /\ ValidateIdle
    /\ OrgIdle
    /\ OthersIdle
    /\ remapIn \in { [range |-> Rng(sl, sc, el, ec)] :
                        sl \in Coords, sc \in Coords, el \in Coords, ec \in Coords }
    /\ remapLine \in Coords
    /\ remapColumn \in Coords
    /\ remapOut = remapIn
    /\ remapDone = FALSE

NextRemap ==
    ApplyRemap /\ UNCHANGED <<validateVars, orgVars, serverVars, yamlVars>>

SpecRemap == InitRemap /\ [][NextRemap]_vars

Init ==
    /\ diagnosticProducers \in Registries
    /\ document \in Documents
    /\ maxCount \in -1..MaxCap
    /\ pc = "start"
    /\ results = <<>>
    /\ graphQueries = <<>>
    /\ idx = 0
    /\ tasks = [t \in TaskKeys |-> NoTask]
    /\ settled = <<>>
    /\ extractorCalls = 0
    /\ parsed = {}
    /\ RemapIdle
    /\ OrgIdle
    /\ OthersIdle

\* The variables a pass leaves alone.
PassOnly == UNCHANGED <<remapVars, orgVars, serverVars, yamlVars>>

Next ==
    \/ (ShortCircuit /\ PassOnly)
    \/ (Extract /\ PassOnly)
    \/ (ExtractThrows /\ PassOnly)
    \/ (LoopExit /\ PassOnly)
    \/ (ParseFails /\ PassOnly)
    \/ (Launch /\ PassOnly)
    \/ (\E t \in TaskKeys : RuleSettles(t[1], t[2]) /\ PassOnly)
    \/ (JoinFulfilled /\ PassOnly)
    \/ (JoinRejected /\ PassOnly)

Spec == Init /\ [][Next]_vars

\* --------------------------------------------------------------- server.ts

\* The producer ids diagnostics carry in their data field, and what
\* suppressByRuleId lists.
RuleIds == {"r1", "r2"}
Versions == 1..MaxVersion

\* A diagnostic of a code-action request, as far as the handler reads it.
Diagnostics == { [data |-> r] : r \in RuleIds }

SeqsUpTo(S, n) == UNION { [1..k -> S] : k \in 0..n }

SettingsValues ==
    { [suppressAll |-> a, suppressByRuleId |-> ids] :
        a \in BOOLEAN, ids \in SeqsUpTo(RuleIds, MaxSuppressed) }

\* Lines 497-500: documents.onDidChangeContent.
DidChangeContent(u, v) ==
    /\ documentCache' = [documentCache EXCEPT ![u] = v]
    /\ lastEvent' = [lastEvent EXCEPT ![u] = [kind |-> "change", version |-> v]]
    /\ UNCHANGED <<settings, codeActionParams, codeActionResult>>

\* (mutant) onDidClose keeps the entry.
DidCloseKeepsEntry(u) ==
    /\ lastEvent' = [lastEvent EXCEPT ![u] = [kind |-> "close", version |-> 0]]
    /\ UNCHANGED <<documentCache, settings, codeActionParams, codeActionResult>>

\* Lines 503-506: documents.onDidClose.
DidClose(u) ==
    /\ documentCache' = [documentCache EXCEPT ![u] = NoDoc]
    /\ lastEvent' = [lastEvent EXCEPT ![u] = [kind |-> "close", version |-> 0]]
    /\ UNCHANGED <<settings, codeActionParams, codeActionResult>>

\* Lines 446-468: connection.onDidChangeConfiguration.
DidChangeConfiguration(st) ==
    /\ settings' = st
    /\ UNCHANGED <<documentCache, lastEvent, codeActionParams, codeActionResult>>

\* (mutant) The id is added without the test for its presence.
SetAddAlways(set, x) == Append(set, x)

\* Set.prototype.add: a Set keeps its elements in insertion order, once.
SetAdd(set, x) ==
    IF \E i \in 1..Len(set) : set[i] = x THEN set ELSE Append(set, x)

\* new Set(array): the elements in the order of their first occurrence.
RECURSIVE SetFrom(_)
SetFrom(array) ==
    IF array = <<>> THEN <<>>
    ELSE SetAdd(SetFrom(SubSeq(array, 1, Len(array) - 1)), array[Len(array)])

\* Lines 548-581: the two quick fixes of one diagnostic.
quickFixes(diagnostic, st) ==
    << [title |-> <<"Suppress such diagnostic", diagnostic.data>>,
        diagnostics |-> <<diagnostic>>,
        arguments |-> [suppressByRuleId |->
                          SetAdd(SetFrom(st.suppressByRuleId), diagnostic.data)]],
       [title |-> <<"Suppress all Salesforce Mobile diagnostics">>,
        diagnostics |-> <<diagnostic>>,
        arguments |-> [suppressAll |-> TRUE]] >>

\* Lines 537-585: connection.onCodeAction.
OnCodeAction(u, diagnostics) ==
    /\ codeActionParams' = [uri |-> u, diagnostics |-> diagnostics]
    /\ codeActionResult' =
           IF documentCache[u] = NoDoc \/ Len(diagnostics) = 0
           THEN [kind |-> "undefined", actions |-> <<>>]
           ELSE [kind |-> "actions",
                 actions |-> flat([i \in 1..Len(diagnostics) |->
                                     quickFixes(diagnostics[i], settings)])]
    /\ UNCHANGED <<documentCache, lastEvent, settings>>

InitServer ==
    /\ ValidateIdle
    /\ RemapIdle
    /\ OrgIdle
    /\ OthersIdle

ServerOnly == UNCHANGED <<validateVars, remapVars, orgVars, yamlVars>>

NextServer ==
    \/ \E u \in Uris, v \in Versions : DidChangeContent(u, v) /\ ServerOnly
    \/ \E u \in Uris : DidClose(u) /\ ServerOnly
    \/ \E st \in SettingsValues : DidChangeConfiguration(st) /\ ServerOnly
    \/ \E u \in Uris, ds \in SeqsUpTo(Diagnostics, MaxDiagnostics) :
           OnCodeAction(u, ds) /\ ServerOnly

SpecServer == InitServer /\ [][NextServer]_vars

\* ------------------------------------------------------------ yamlParser.ts

\* The items of a YAML sequence, by their JavaScript type.
StringItem(x) == [type |-> "string", v |-> x]
NumberItem == [type |-> "number", v |-> "1"]

\* The values an entry may have: arrays of strings, an array with a number
\* in it, and a value that is not an array.
EntryValues ==
    { [isArray |-> TRUE, items |-> <<>>],
      [isArray |-> TRUE, items |-> <<StringItem("x"), StringItem("y")>>],
      [isArray |-> TRUE, items |-> <<StringItem("x"), NumberItem>>],
      [isArray |-> FALSE, items |-> <<>>] }

LevelKeys == {"k1", "k2", "k3"}

\* Object.entries of a mapping: its key/value pairs in document order, the
\* keys distinct.
Levels ==
    { l \in SeqsUpTo([key : LevelKeys, value : EntryValues], MaxEntries) :
        \A i \in 1..Len(l) : \A j \in 1..Len(l) : l[i].key = l[j].key => i = j }

\* The own top-level keys a document may have, and the members every
\* object inherits from Object.prototype.
TopKeys == {"values", "other"}
PrototypeKeys == {"constructor"}

\* parse(yamlContent): a mapping of top-level keys to mappings.
YamlDocuments ==
    UNION { { f \in [D -> Levels] : "other" \in D => f["other"] = <<>> } :
              D \in SUBSET TopKeys }

\* Line 11, the in operator: own and inherited members.
hasProperty(obj, p) == p \in DOMAIN obj \/ p \in PrototypeKeys

\* Lines 20 and 23: Object.entries(parsedYaml[p]); an inherited member has
\* no enumerable entries of its own.
entriesOf(obj, p) == IF p \in DOMAIN obj THEN obj[p] ELSE <<>>

\* Lines 26-27.
isArrayOfStrings(value) ==
    value.isArray /\ \A i \in 1..Len(value.items) : value.items[i].type = "string"

Threw == [threw |-> TRUE, record |-> <<>>]

\* Lines 23-37: the loop over the entries and the return.
RECURSIVE transformEntries(_, _)
transformEntries(entries, result) ==
    IF entries = <<>> THEN [threw |-> FALSE, record |-> result]
    ELSE IF isArrayOfStrings(Head(entries).value)
    THEN transformEntries(Tail(entries),
             (Head(entries).key :> Head(entries).value.items) @@ result)
    ELSE Threw

\* Lines 3-38, from the parsed document on.
transformYamlToObject(obj, p) ==
    IF ~hasProperty(obj, p) THEN Threw
    ELSE transformEntries(entriesOf(obj, p), <<>>)

ApplyYaml ==
    /\ ~yamlDone
    /\ yamlResult' = transformYamlToObject(parsedYaml, designatedLevelProperty)
    /\ yamlDone' = TRUE
    /\ UNCHANGED <<parsedYaml, designatedLevelProperty>>

\* The names asked for: one a document may define, one every object
\* inherits.
DesignatedNames == {"values", "constructor"}

InitYaml ==
    /\ ValidateIdle
    /\ RemapIdle
    /\ OrgIdle
    /\ ServerIdle
    /\ parsedYaml \in YamlDocuments
    /\ designatedLevelProperty \in DesignatedNames
    /\ yamlResult = [threw |-> FALSE, record |-> <<>>]
    /\ yamlDone = FALSE

NextYaml ==
    ApplyYaml /\ UNCHANGED <<validateVars, remapVars, orgVars, serverVars>>

SpecYaml == InitYaml /\ [][NextYaml]_vars

\* ------------------------------------------------------------------ claims

Take(s, n) == SubSeq(s, 1, Min(n, Len(s)))

\* The most findings one rule emits on one fragment.
MaxEmitted ==
    CHOOSE n \in { Len(o.ranges) : o \in RuleOutcomes } :
        \A o \in RuleOutcomes : Len(o.ranges) <= n

\* A cap no document of the model reaches.
NoCap == MaxFragments * Cardinality(Rules) * MaxEmitted + 1

\* The ordered sequence S the pass yields when no cap cuts it.
Uncapped == validateGraphqlResult(document.queries, diagnosticProducers, NoCap)

\* The fragment-relative range rule d.data reported for diagnostic d.
ReportedRange(d) == document.queries[d.frag].out[d.data].ranges[d.seq]

\* The position of producer r in the registry.
RegistryIndex(r) ==
    CHOOSE k \in 1..Len(diagnosticProducers) : diagnosticProducers[k] = r

Launched(f) == \E r \in Rules : tasks[<<f, r>>].state # "none"

\* C1: for a positive maxCount the returned list never holds more than
\* maxCount diagnostics, whatever the fragments and the findings per rule.
C1_AtMostMaxCount ==
    (pc = "returned" /\ maxCount > 0) => Len(results) <= maxCount

\* C1: a pass whose findings outnumber the cap returned a list cut at the cap.
C1_Witness ==
    /\ pc = "returned"
    /\ maxCount > 0
    /\ Len(Uncapped) > maxCount
    /\ Len(results) = maxCount

\* C2: a fragment that fails to parse never has a rule invoked and never
\* contributes a diagnostic, and the returned list is the one the pass yields
\* for the document without its unparsable fragments.
C2_ParseFailureSkipsFragmentOnly ==
    /\ \A k \in 1..Len(graphQueries) :
           ~graphQueries[k].parses =>
               /\ ~Launched(k)
               /\ \A n \in 1..Len(results) : results[n].frag # k
    /\ pc = "returned" =>
           results = validateGraphqlResult(
                         SelectSeq(document.queries, LAMBDA f : f.parses),
                         diagnosticProducers, maxCount)

\* C2: a pass returned diagnostics of a fragment that follows an unparsable
\* one, having tried to parse both.
C2_Witness ==
    /\ pc = "returned"
    /\ Len(graphQueries) = 2
    /\ ~graphQueries[1].parses
    /\ parsed = {1, 2}
    /\ results # <<>>

\* C3: the promise of validateGraphql never rejects, whatever fails inside the
\* pass (extraction, parsing, a rule).
C3_NeverRejects == pc # "rejected"

\* C4: when the cap is not reached, every finding of a rule that did not fail
\* on a fragment that parses is in the returned list, also when another rule
\* failed on that fragment.
C4_OtherRulesFindingsKept ==
    (pc = "returned" /\ Len(results) < maxCount) =>
        \A k \in 1..Len(graphQueries) : \A j \in 1..Len(diagnosticProducers) :
            LET q == graphQueries[k]
                r == diagnosticProducers[j]
            IN  (q.parses /\ ~q.out[r].fails) =>
                    \A e \in 1..Len(q.out[r].ranges) :
                        \E n \in 1..Len(results) :
                            /\ results[n].frag = k
                            /\ results[n].data = r
                            /\ results[n].seq = e

\* C5: the diagnostics are ordered by fragment, then by the rule's place in
\* the registry, then by the rule's emission order, in whatever order the
\* rules' promises settle.
C5_Ordered ==
    \A m \in 1..Len(results) : \A n \in 1..Len(results) :
        m < n =>
            LET a == results[m]
                b == results[n]
            IN  \/ a.frag < b.frag
                \/ /\ a.frag = b.frag
                   /\ RegistryIndex(a.data) < RegistryIndex(b.data)
                \/ /\ a.frag = b.frag
                   /\ a.data = b.data
                   /\ a.seq < b.seq

\* C5: the list holds findings of two rules on one fragment, and the rule that
\* comes later in the registry settled first.
C5_Witness ==
    /\ pc = "returned"
    /\ Len(diagnosticProducers) = 2
    /\ \E m \in 1..Len(results) : \E n \in 1..Len(results) :
           /\ m < n
           /\ results[m].frag = results[n].frag
           /\ results[m].data = diagnosticProducers[1]
           /\ results[n].data = diagnosticProducers[2]
           /\ settledOf(results[m].frag) =
                  << <<results[m].frag, diagnosticProducers[2]>>,
                     <<results[m].frag, diagnosticProducers[1]>> >>

\* C6: for a positive maxCount the returned list is exactly the first
\* min(maxCount, |S|) elements of the uncapped sequence S.
C6_ExactPrefix ==
    (pc = "returned" /\ maxCount > 0) => results = Take(Uncapped, maxCount)

\* C6: one fragment with four findings from two rules, cap 3: the list is
\* the first three, the cut falling inside the second rule's findings.
C6_Witness ==
    /\ pc = "returned"
    /\ maxCount = 3
    /\ Len(graphQueries) = 1
    /\ Len(Uncapped) = 4
    /\ Len(results) = 3
    /\ results[2].data # results[3].data

\* C7: updateDiagnosticOffset adds lineOffset to the line of each endpoint,
\* and columnOffset to the column of exactly the endpoints whose
\* fragment-relative line is 0.
C7_RemapPerEndpoint ==
    remapDone =>
        /\ remapOut.range.start.line = remapIn.range.start.line + remapLine
        /\ remapOut.range.end.line = remapIn.range.end.line + remapLine
        /\ remapOut.range.start.character =
               IF remapIn.range.start.line = 0
               THEN remapIn.range.start.character + remapColumn
               ELSE remapIn.range.start.character
        /\ remapOut.range.end.character =
               IF remapIn.range.end.line = 0
               THEN remapIn.range.end.character + remapColumn
               ELSE remapIn.range.end.character

\* C7: a diagnostic that starts on the first line and ends on a later one was
\* remapped with both offsets positive.
C7_Witness ==
    /\ remapDone
    /\ remapIn.range.start.line = 0
    /\ remapIn.range.end.line > 0
    /\ remapLine > 0
    /\ remapColumn > 0

\* C8 as stated: at LocationOffset (line 5, column 10) the finding
\* (0,3)-(0,8) becomes (5,13)-(5,18) and a start (1,2) becomes (6,2).
C8_OffsetsTakenAsReported ==
    \A n \in 1..Len(results) :
        LET d == results[n]
        IN  document.queries[d.frag].locationOffset = [line |-> 5, column |-> 10] =>
                /\ ReportedRange(d) = Rng(0, 3, 0, 8) =>
                       d.range = Rng(5, 13, 5, 18)
                /\ ReportedRange(d).start = Pos(1, 2) =>
                       d.range.start = Pos(6, 2)

\* C8 amended: at LocationOffset (line 5, column 10) the finding (0,3)-(0,8)
\* becomes (4,14)-(4,19) and a start (1,2) becomes (5,2): the line offset is
\* line - 1 and the column offset column + 1.
C8_OffsetsConverted ==
    \A n \in 1..Len(results) :
        LET d == results[n]
        IN  document.queries[d.frag].locationOffset = [line |-> 5, column |-> 10] =>
                /\ ReportedRange(d) = Rng(0, 3, 0, 8) =>
                       d.range = Rng(4, 14, 4, 19)
                /\ ReportedRange(d).start = Pos(1, 2) =>
                       d.range.start = Pos(5, 2)

\* C8: the returned list holds, from fragments at (line 5, column 10), a
\* finding reported at (0,3)-(0,8) and one whose start was reported at (1,2).
C8_Witness ==
    /\ pc = "returned"
    /\ \E n \in 1..Len(results) :
           /\ document.queries[results[n].frag].locationOffset =
                  [line |-> 5, column |-> 10]
           /\ ReportedRange(results[n]) = Rng(0, 3, 0, 8)
    /\ \E n \in 1..Len(results) :
           /\ document.queries[results[n].frag].locationOffset =
                  [line |-> 5, column |-> 10]
           /\ ReportedRange(results[n]).start = Pos(1, 2)

\* C9: with maxCount <= 0 or an empty registry the pass returns the empty
\* list at once: the extractor, the parser and the rules never run.
C9_ShortCircuit ==
    (maxCount <= 0 \/ Len(diagnosticProducers) = 0) =>
        /\ pc \in {"start", "returned"}
        /\ results = <<>>
        /\ extractorCalls = 0
        /\ parsed = {}
        /\ \A t \in TaskKeys : tasks[t].state = "none"

\* C9: a pass over a document with findings returned under an empty registry
\* and a positive cap.
C9_Witness ==
    /\ pc = "returned"
    /\ maxCount > 0
    /\ diagnosticProducers = <<>>
    /\ Len(document.queries) = MaxFragments
    /\ \A k \in 1..Len(document.queries) : document.queries[k].parses

\* C10: at any moment at most one network request is in flight per object
\* name, in every interleaving of getObjectInfo calls and org changes.
C10_SingleFlight == \A n \in Names : Cardinality(InFlight(n)) <= 1

\* C11: every handle stored in objectInfoPromises is eventually removed from
\* the map: no name keeps a handle forever.
C11_HandleEventuallyRemoved ==
    \A n \in Names : (objectInfoPromises[n] # 0) ~> (objectInfoPromises[n] = 0)

\* C12: every getObjectInfo call eventually completes, with an ObjectInfo or
\* with undefined.
C12_CallEventuallyCompletes ==
    \A c \in Callers : (thread[c].pc # "idle") ~> (thread[c].pc = "done")

\* C13: a call for which checkAuthStatus yielded a status other than
\* CONNECTED returns undefined at once: its next step completes it with
\* undefined and leaves the memory cache, the disk, the map of handles and the
\* promise executors as they were (no cache lookup, no handle, no request).
C13_UnavailableReturnsAbsent ==
    [][\A c \in Callers :
          (thread[c].pc = "afterAuth" /\ thread[c].status # "CONNECTED") =>
              /\ thread'[c].pc = "done"
              /\ thread'[c].value = Undefined
              /\ thread'[c].promise = 0
              /\ \A p \in Promises : thread'[Exec(p)] = thread[Exec(p)]
              /\ UNCHANGED <<cacheVars, diskVars, nextPromise>>]_vars

\* C13: a call completed with undefined on a status other than CONNECTED
\* while the memory cache held an entry for its name.
C13_Witness ==
    \E c \in Callers :
        /\ thread[c].pc = "done"
        /\ thread[c].status # "CONNECTED"
        /\ thread[c].value = Undefined
        /\ objectInfoInMemoCache[thread[c].name] # NoInfo

\* The registries that hold the same producers as reg, in any order.
PermutationsOf(reg) ==
    { q \in Registries :
        /\ Len(q) = Len(reg)
        /\ { q[k] : k \in 1..Len(q) } = { reg[k] : k \in 1..Len(reg) } }

\* The multiset of the elements of a sequence.
BagOf(s) ==
    [x \in { s[i] : i \in 1..Len(s) } |->
        Cardinality({ i \in 1..Len(s) : s[i] = x })]

\* C14 as stated: for every document and every maxCount the returned
\* diagnostics are, as a multiset, those the pass returns under every
\* permutation of the registry.
C14_SameMultisetForEveryCap ==
    pc = "returned" =>
        \A q \in PermutationsOf(diagnosticProducers) :
            BagOf(results) =
                BagOf(validateGraphqlResult(document.queries, q, maxCount))

\* C14 amended: the same, for every maxCount that does not cut the list
\* (maxCount <= 0, or maxCount at least the number of findings).
C14_SameMultisetWhenNotCut ==
    (pc = "returned" /\ (maxCount <= 0 \/ Len(Uncapped) <= maxCount)) =>
        \A q \in PermutationsOf(diagnosticProducers) :
            BagOf(results) =
                BagOf(validateGraphqlResult(document.queries, q, maxCount))

\* C14: a pass returned, uncut, findings of two rules on one fragment, and
\* the pass under the reversed registry returns them in another order.
C14_Witness ==
    /\ pc = "returned"
    /\ Len(diagnosticProducers) = 2
    /\ Len(results) = 4
    /\ Len(Uncapped) <= maxCount
    /\ results[1].frag = results[3].frag
    /\ results[1].data # results[3].data
    /\ results # validateGraphqlResult(document.queries,
                      <<diagnosticProducers[2], diagnosticProducers[1]>>,
                      maxCount)

\* C15: for a document in which the extractor finds no literal the pass
\* returns the empty list for every maxCount, and neither parse nor a rule is
\* invoked.
C15_NoLiteralsEmptyList ==
    (~document.extractFails /\ document.queries = <<>>) =>
        /\ pc # "rejected"
        /\ results = <<>>
        /\ parsed = {}
        /\ \A t \in TaskKeys : tasks[t].state = "none"

\* C15: a pass with a positive cap and a registered rule ran the extractor on
\* a document without literals and returned.
C15_Witness ==
    /\ pc = "returned"
    /\ ~document.extractFails
    /\ document.queries = <<>>
    /\ maxCount > 0
    /\ diagnosticProducers # <<>>
    /\ extractorCalls = 1

\* C16: updateDiagnosticOffset(d, 0, 0) leaves the range of d unchanged.
C16_IdentityOffset ==
    (remapDone /\ remapLine = 0 /\ remapColumn = 0) => remapOut = remapIn

\* C16: the identity offset was applied to a range that starts on the first
\* line, away from column 0, and ends on a later line.
C16_Witness ==
    /\ remapDone
    /\ remapLine = 0
    /\ remapColumn = 0
    /\ remapIn.range.start.line = 0
    /\ remapIn.range.start.character > 0
    /\ remapIn.range.end.line > 0

\* A registered rule's promise rejects on fragment q.
RuleFailsOn(q) ==
    \E j \in 1..Len(diagnosticProducers) : q.out[diagnosticProducers[j]].fails

\* C17: a rule failure on a fragment does not abort the pass: the pass does
\* not reject, and when the cap is not reached every fragment that parses and
\* on which no rule failed has all its findings in the returned list,
\* whatever failed on the fragments before and after it.
C17_RuleFailureSkipsFragmentOnly ==
    /\ ~document.extractFails => pc # "rejected"
    /\ (pc = "returned" /\ Len(results) < maxCount) =>
           \A k \in 1..Len(graphQueries) :
               LET q == graphQueries[k]
               IN  (q.parses /\ ~RuleFailsOn(q)) =>
                       \A j \in 1..Len(diagnosticProducers) :
                           \A e \in 1..Len(q.out[diagnosticProducers[j]].ranges) :
                               \E n \in 1..Len(results) :
                                   /\ results[n].frag = k
                                   /\ results[n].data = diagnosticProducers[j]
                                   /\ results[n].seq = e

\* C17: a rule failed on the first fragment, and the pass returned with the
\* findings of the second.
C17_Witness ==
    /\ pc = "returned"
    /\ Len(graphQueries) = 2
    /\ graphQueries[1].parses
    /\ RuleFailsOn(graphQueries[1])
    /\ \E r \in Rules : tasks[<<1, r>>].state = "rejected"
    /\ results # <<>>
    /\ results[1].frag = 2

\* C18: fragments are processed strictly one after another: a rule
\* invocation is running only while the pass waits on its fragment, and a
\* fragment's findings are appended only after all rules were launched on it.
C18_FragmentsStrictlySequential ==
    /\ \A t \in TaskKeys :
           tasks[t].state = "running" => (pc = "join" /\ t[1] = idx)
    /\ \A n \in 1..Len(results) : \A j \in 1..Len(diagnosticProducers) :
           tasks[<<results[n].frag, diagnosticProducers[j]>>].state # "none"

\* C19: once the accumulated count has reached maxCount nothing more is
\* parsed, launched or appended: no fragment from the loop's position on was
\* parsed or had a rule invoked, and every later step leaves the results, the
\* parsed fragments and the loop's position as they are and invokes no rule.
C19_CapStopsPass ==
    [][(pc \in {"loop", "join", "returned"} /\ maxCount > 0
            /\ Len(results) >= maxCount) =>
          /\ \A k \in 1..Len(graphQueries) :
                 k >= idx => (k \notin parsed /\ ~Launched(k))
          /\ results' = results
          /\ parsed' = parsed
          /\ idx' = idx
          /\ \A t \in TaskKeys :
                 tasks[t].state = "none" => tasks'[t].state = "none"]_vars

\* C19: the first fragment filled the cap, and the pass returned without
\* parsing the second, which parses and has findings.
C19_Witness ==
    /\ pc = "returned"
    /\ maxCount > 0
    /\ Len(results) = maxCount
    /\ Len(graphQueries) = 2
    /\ graphQueries[2].parses
    /\ validateOneGraphQuery(graphQueries[2], diagnosticProducers) # <<>>
    /\ parsed = {1}
    /\ ~Launched(2)

\* The executors as a step leaves them: no promise is created, no request
\* is sent.
ExecutorsUnchanged == \A p \in Promises : thread'[Exec(p)] = thread[Exec(p)]

\* C20: a connected call looks the name up in memory, then on disk, then
\* asks the network. A memory hit returns the cached info and touches neither
\* disk nor network; a disk hit is copied to the memory cache and returned
\* without a handle or a request; only a miss in both makes the call wait on
\* a handle, and a promise is created by no other step; a request that
\* resolves with an info has stored it in the memory cache and in the file of
\* the name.
C20_TierOrder ==
    [][/\ \A c \in Callers :
             (thread[c].pc = "afterAuth" /\ thread[c].status = "CONNECTED") =>
                 LET n == thread[c].name
                     inMemory == objectInfoInMemoCache[n]
                     onDisk == objectInfoFile[<<orgName, n>>]
                 IN  IF inMemory # NoInfo
                     THEN /\ thread'[c].pc = "done"
                          /\ thread'[c].value = inMemory
                          /\ ExecutorsUnchanged
                          /\ UNCHANGED <<cacheVars, diskVars, nextPromise>>
                     ELSE IF onDisk # NoInfo
                     THEN /\ thread'[c].pc = "done"
                          /\ thread'[c].value = onDisk
                          /\ objectInfoInMemoCache'[n] = onDisk
                          /\ ExecutorsUnchanged
                          /\ UNCHANGED <<objectInfoPromises, objectInfoFile,
                                         nextPromise>>
                     ELSE /\ thread'[c].pc = "waiting"
                          /\ thread'[c].promise = objectInfoPromises'[n]
                          /\ thread'[c].promise # 0
       /\ nextPromise' # nextPromise =>
             \E c \in Callers :
                 /\ thread[c].pc = "afterAuth" /\ thread[c].status = "CONNECTED"
                 /\ objectInfoInMemoCache[thread[c].name] = NoInfo
                 /\ objectInfoFile[<<orgName, thread[c].name>>] = NoInfo
                 /\ thread'[Exec(nextPromise)].name = thread[c].name
       /\ \A p \in Promises :
             (thread[Exec(p)].pc # "resolved" /\ thread'[Exec(p)].pc = "resolved"
                  /\ thread'[Exec(p)].value # Undefined) =>
                 /\ thread[Exec(p)].pc = "request"
                 /\ objectInfoInMemoCache'[thread[Exec(p)].name] =
                        thread'[Exec(p)].value
                 /\ objectInfoFile'[<<orgName', thread[Exec(p)].name>>] =
                        thread'[Exec(p)].value]_vars

\* C20: one call was answered by the network; after an org change another
\* call for the same name was served, without a handle, the info of the new
\* org, which only the disk cache held, and the memory cache now holds it.
C20_Witness ==
    \E a \in Callers, b \in Callers :
        /\ thread[a].pc = "done" /\ thread[b].pc = "done"
        /\ thread[a].name = thread[b].name
        /\ thread[a].promise # 0
        /\ thread[a].value # Undefined
        /\ thread[b].promise = 0
        /\ thread[b].value # Undefined
        /\ thread[a].value # thread[b].value
        /\ objectInfoInMemoCache[thread[b].name] = thread[b].value
        /\ objectInfoFile[<<orgName, thread[b].name>>] = thread[b].value

\* C21: the step of onAuthOrgChanged leaves the status UNKNOWN, the entity
\* list, the memory cache and the map of handles empty, the connection
\* undefined and orgName empty, and has removed the folder of the org that
\* orgName named with its files; a call that then tests the status goes on
\* to getConnection.
C21_InvalidatedWholesale ==
    [][/\ (notifyPending /\ ~notifyPending') =>
             /\ connectStatus' = "UNKNOWN"
             /\ entities' = {}
             /\ \A n \in Names : objectInfoInMemoCache'[n] = NoInfo
             /\ \A n \in Names : objectInfoPromises'[n] = 0
             /\ connection' = NoConn
             /\ orgName' = ""
             /\ orgName # "" =>
                    /\ orgName \notin folders'
                    /\ entityListFile'[orgName] = NoFile
                    /\ \A n \in Names : objectInfoFile'[<<orgName, n>>] = NoInfo
       /\ \A c \in Callers :
             (thread[c].pc = "checkAuth" /\ connectStatus = "UNKNOWN") =>
                 thread'[c].pc = "getConn"]_vars

\* C21: an org change was handled after a call had returned the info of the
\* org then connected: nothing of that org is left in memory or on disk.
C21_Witness ==
    /\ orgChanges > 0
    /\ ~notifyPending
    /\ connectStatus = "UNKNOWN"
    /\ connection = NoConn
    /\ orgName = ""
    /\ \E c \in Callers :
           /\ thread[c].pc = "done"
           /\ thread[c].value \in Orgs
           /\ thread[c].value \notin folders
           /\ objectInfoInMemoCache[thread[c].name] = NoInfo
           /\ objectInfoFile[<<thread[c].value, thread[c].name>>] = NoInfo

\* The memory cache and the disk hold no info but that of the default org
\* (for the memory cache) and of the org a folder is named after (for a file).
NoStaleInfo ==
    /\ \A n \in Names : objectInfoInMemoCache[n] \in {NoInfo, targetOrg}
    /\ \A k \in Paths \X Names : objectInfoFile[k] \in {NoInfo, k[1]}

\* C22: after an org change was handled no info obtained through the
\* previous org's connection is in the memory cache or on disk; the
\* completion of a request sent through a connection that is no longer the
\* current one stores nothing, and no completion removes the handle of
\* another request.
C22_NoStaleInfoAfterOrgChange ==
    [][/\ (orgChanges' > 0 /\ ~notifyPending') => NoStaleInfo'
       /\ \A p \in Promises :
             (thread[Exec(p)].pc = "request" /\ thread'[Exec(p)].pc = "resolved") =>
                 /\ thread[Exec(p)].conn # connection =>
                        UNCHANGED <<objectInfoInMemoCache, objectInfoFile>>
                 /\ objectInfoPromises[thread[Exec(p)].name] \notin {0, p} =>
                        UNCHANGED objectInfoPromises]_vars

\* C23: a call that observed CONNECTED finds the entity list loaded, and a
\* call that was rejected while the list was loading does not leave the
\* status CONNECTED with the list still empty.
C23_ConnectedImpliesEntitiesLoaded ==
    /\ \A c \in Callers :
           (thread[c].pc = "afterAuth" /\ thread[c].status = "CONNECTED") =>
               entities # {}
    /\ \A c \in Callers :
           (thread[c].pc = "rejected" /\ entities = {}) =>
               connectStatus # "CONNECTED"

\* The producers invoked on fragment f.
InvokedOn(f) == { r \in Rules : tasks[<<f, r>>].state # "none" }

\* C24: no step of a pass changes the registry, and the rules invoked on a
\* fragment are those of the registry.
C24_RegistryNeverMutated ==
    [][/\ diagnosticProducers' = diagnosticProducers
       /\ \A f \in 1..MaxFragments :
             (InvokedOn(f) = {} /\ InvokedOn(f)' # {}) =>
                 InvokedOn(f)' = { diagnosticProducers[k] :
                                      k \in 1..Len(diagnosticProducers) }]_vars

\* C24: a pass under a registry of two rules returned after both rules were
\* invoked on each of two fragments.
C24_Witness ==
    /\ pc = "returned"
    /\ Len(diagnosticProducers) = 2
    /\ InvokedOn(1) = Rules
    /\ InvokedOn(2) = Rules

\* C25: a uri is a key of documentCache exactly when the latest event for
\* it was a content change, and the cached document is then that of this
\* latest change.
C25_CacheHoldsOpenDocuments ==
    \A u \in Uris :
        /\ documentCache[u] # NoDoc <=> lastEvent[u].kind = "change"
        /\ lastEvent[u].kind = "change" => documentCache[u] = lastEvent[u].version

\* C25: one document was closed after it had been cached, another is cached
\* in a later version than its first.
C25_Witness ==
    /\ lastEvent["a.js"].kind = "close"
    /\ documentCache["a.js"] = NoDoc
    /\ documentCache["b.js"] = MaxVersion
    /\ lastEvent["b.js"] = [kind |-> "change", version |-> MaxVersion]

\* The elements of a sequence.
Range(s) == { s[i] : i \in 1..Len(s) }

\* C26: the code-action handler returns undefined when the document is not
\* in documentCache or the request has no diagnostics; otherwise two quick
\* fixes per diagnostic in diagnostic order, the first with the settings'
\* suppressed ids plus the diagnostic's producer id, without duplicates, the
\* second with suppressAll = true; the settings and the cache stay as they
\* were.
C26_CodeActions ==
    [][(codeActionParams' # codeActionParams
            \/ codeActionResult' # codeActionResult) =>
          LET ds == codeActionParams'.diagnostics
              as == codeActionResult'.actions
          IN  /\ UNCHANGED <<settings, documentCache>>
              /\ IF documentCache[codeActionParams'.uri] = NoDoc \/ Len(ds) = 0
                 THEN codeActionResult'.kind = "undefined"
                 ELSE /\ codeActionResult'.kind = "actions"
                      /\ Len(as) = 2 * Len(ds)
                      /\ \A i \in 1..Len(ds) :
                            LET ids == as[2 * i - 1].arguments.suppressByRuleId
                            IN  /\ as[2 * i - 1].diagnostics = <<ds[i]>>
                                /\ Range(ids) =
                                       Range(settings.suppressByRuleId)
                                           \cup {ds[i].data}
                                /\ Cardinality(Range(ids)) = Len(ids)
                                /\ as[2 * i].diagnostics = <<ds[i]>>
                                /\ as[2 * i].arguments = [suppressAll |-> TRUE]
      ]_vars

\* C26: under settings that suppress r1, a request with a diagnostic of r1
\* and one of r2 was answered with four quick fixes: r1 is listed once for
\* the first, r1 and r2 for the second.
C26_Witness ==
    /\ settings.suppressByRuleId = <<"r1">>
    /\ codeActionResult.kind = "actions"
    /\ codeActionParams.diagnostics = << [data |-> "r1"], [data |-> "r2"] >>
    /\ Len(codeActionResult.actions) = 4
    /\ codeActionResult.actions[1].arguments.suppressByRuleId = <<"r1">>
    /\ codeActionResult.actions[3].arguments.suppressByRuleId = <<"r1", "r2">>

\* The designated property is a key of the parsed document.
DesignatedPresent == designatedLevelProperty \in DOMAIN parsedYaml

\* C27: transformYamlToObject throws when the designated property is absent
\* and when an entry under it is not an array of strings; when it returns,
\* the record has exactly the keys of the designated level, each with its
\* array unchanged.
C27_ThrowsOrWholeRecord ==
    yamlDone =>
        /\ ~DesignatedPresent => yamlResult.threw
        /\ (DesignatedPresent
               /\ \E i \in 1..Len(parsedYaml[designatedLevelProperty]) :
                      ~isArrayOfStrings(parsedYaml[designatedLevelProperty][i].value))
              => yamlResult.threw
        /\ ~yamlResult.threw =>
              /\ DesignatedPresent
              /\ LET level == parsedYaml[designatedLevelProperty]
                 IN  /\ DOMAIN yamlResult.record = { level[i].key : i \in 1..Len(level) }
                     /\ \A i \in 1..Len(level) :
                            yamlResult.record[level[i].key] = level[i].value.items

====
